---- MODULE Spec2Model ----
(***************************************************************************)
(* A model of find_kallsyms.py: the search for the kallsyms tables in a    *)
(* byte buffer.  Offsets are the code's 0-based offsets; rodata is a       *)
(* sequence of bytes, rodata[o + 1] being the byte at offset o.            *)
(*                                                                         *)
(* Integers read from the buffer are up to 64 bits wide and Python adds    *)
(* them without wrapping, so a number n read from the buffer is kept as    *)
(* its little-endian base-256 digits with no leading (high) zero digit:    *)
(* <<>> is 0, <<1>> is 1, <<0, 1>> is 256.  Two such numbers are equal     *)
(* exactly when their digit sequences are equal.                           *)
(***************************************************************************)
EXTENDS Integers, Sequences, FiniteSets, TLC

VARIABLES
    rodata,              \* the input buffer
    pc,                  \* where find_kallsyms_in_rodata stands
    endianness,          \* "<" or ">"
    token_index_offset,  \* find_token_indices: the scan position / the yield
    token_index,
    token_table_offset,
    token_table,
    markers_end_offset,
    marker_size,
    markers_offset,
    markers,
    num_syms_offset,
    names,
    names_offset,        \* find_num_syms: its local `offset` at the yield
    name_counts,         \* find_num_syms: its local `name_counts` at the yield
    word,                \* the size of Word: 8 (WORD64) or 4 (WORD32)
    base_relative,
    addresses_first,
    candidates,          \* what the address finder yielded for this configuration
    result,              \* the pairs find_kallsyms_in_rodata returns
    built                \* how the input was assembled (not read by the program)

vars == <<rodata, pc, endianness, token_index_offset, token_index,
          token_table_offset, token_table, markers_end_offset, marker_size,
          markers_offset, markers, num_syms_offset, names, names_offset,
          name_counts, word, base_relative, addresses_first, candidates,
          result, built>>

tokenVars == <<token_index_offset, token_index, token_table_offset, token_table>>
markerVars == <<markers_offset, markers>>
nameVars == <<num_syms_offset, names, names_offset, name_counts>>
addressVars == <<word, base_relative, addresses_first, candidates>>

-----------------------------------------------------------------------------
(* Python's bytes and struct                                               *)

\* An index of a slice of a sequence of length n, as Python clamps it.
PyIndex(i, n) ==
    IF i < 0 THEN (IF i + n < 0 THEN 0 ELSE i + n)
    ELSE IF i > n THEN n ELSE i

\* rodata[a : b]
Slice(r, a, b) ==
    LET lo == PyIndex(a, Len(r))
        hi == PyIndex(b, Len(r))
    IN  IF lo < hi THEN SubSeq(r, lo + 1, hi) ELSE <<>>

Reverse(s) == [i \in 1..Len(s) |-> s[Len(s) + 1 - i]]

RECURSIVE Strip(_)
\* The digits of a number without its high zero digits.
Strip(s) ==
    IF s = <<>> THEN s
    ELSE IF s[Len(s)] = 0 THEN Strip(SubSeq(s, 1, Len(s) - 1))
    ELSE s

\* struct.unpack(endianness + "I" | "Q", bs) of a slice of the right length.
unpack_unsigned(e, bs) == Strip(IF e = "<" THEN bs ELSE Reverse(bs))

\* a < b
Less(a, b) ==
    \/ Len(a) < Len(b)
    \/ /\ Len(a) = Len(b)
       /\ \E i \in 1..Len(a) :
             /\ a[i] < b[i]
             /\ \A j \in (i + 1)..Len(a) : a[j] = b[j]

RECURSIVE AddCarry(_, _, _)
AddCarry(a, b, c) ==
    IF a = <<>> /\ b = <<>> THEN (IF c = 0 THEN <<>> ELSE <<c>>)
    ELSE LET x == IF a = <<>> THEN 0 ELSE Head(a)
             y == IF b = <<>> THEN 0 ELSE Head(b)
             s == x + y + c
         IN  <<s % 256>> \o AddCarry(IF a = <<>> THEN a ELSE Tail(a),
                                     IF b = <<>> THEN b ELSE Tail(b),
                                     s \div 256)

\* a + b, unbounded as Python's int.
Add(a, b) == AddCarry(a, b, 0)

RECURSIVE Digits(_)
\* The number n >= 0 of the model's own integers.
Digits(n) == IF n = 0 THEN <<>> ELSE <<n % 256>> \o Digits(n \div 256)

\* A variant that takes every array for sorted; C4 does not hold of it.
NonDecreasingAny(s) == Len(s) >= 0

\* The for ... else loops of find_addresses_kallsyms_base_relative: no
\* address is below the one before it.
NonDecreasing(s) == \A i \in 1..(Len(s) - 1) : ~Less(s[i + 1], s[i])

-----------------------------------------------------------------------------
(* find_markers                                                            *)

\* A variant that accepts a marker equal to the one after it; C8 does not
\* hold of it.
not_increasing_above(marker, ms) == Len(ms) > 0 /\ Less(ms[Len(ms)], marker)

\* len(markers) > 0 and marker >= markers[-1]
not_increasing(marker, ms) == Len(ms) > 0 /\ ~Less(marker, ms[Len(ms)])

RECURSIVE find_markers_loop(_, _, _, _, _, _)
find_markers_loop(r, e, size, marker_offset, first, ms) ==
    LET bs == Slice(r, marker_offset, marker_offset + size) IN
    IF Len(bs) # size
    THEN [kind |-> "error", offset |-> marker_offset, markers |-> ms]
    ELSE
    LET marker == unpack_unsigned(e, bs) IN
    IF first /\ marker = <<>> /\ size = 4
    THEN find_markers_loop(r, e, size, marker_offset - size, FALSE, ms)
    ELSE IF ~first /\ not_increasing(marker, ms)
    THEN [kind |-> "return", offset |-> marker_offset, markers |-> ms]
    ELSE
    LET appended == Append(ms, marker) IN
    IF marker # <<>>
    THEN find_markers_loop(r, e, size, marker_offset - size, FALSE, appended)
    ELSE IF size = 4 /\ Len(appended) = 2
    THEN [kind |-> "return", offset |-> marker_offset, markers |-> appended]
    ELSE [kind |-> "yield", offset |-> marker_offset,
          markers |-> Reverse(appended)]

find_markers(r, e, size, marker_offset) ==
    find_markers_loop(r, e, size, marker_offset, TRUE, <<>>)

-----------------------------------------------------------------------------
(* find_num_syms                                                           *)

KSYM_NAME_LEN == 512

\* None, as an element of name_counts (the counts themselves are >= 0).
None == -1

\* In place of a count or a byte: the TypeError of ord(b"").
TypeError == -2

\* ord(rodata[offset : offset + 1]), which raises on the empty slice.
Ord(r, offset) ==
    LET bs == Slice(r, offset, offset + 1)
    IN  IF bs = <<>> THEN TypeError ELSE bs[1]

\* A variant that accepts a name of KSYM_NAME_LEN bytes; C10 does not hold
\* of it.
too_long_above(name_length) == name_length > KSYM_NAME_LEN

\* name_length >= KSYM_NAME_LEN
too_long(name_length) == name_length >= KSYM_NAME_LEN

RECURSIVE is_name_ok_loop(_, _, _, _, _)
is_name_ok_loop(r, token_lengths, offset, left, name_length) ==
    IF left = 0 THEN "True"
    ELSE LET t == Ord(r, offset) IN
         IF t < 0 THEN "TypeError"
         ELSE LET longer == name_length + token_lengths[t + 1] IN
              IF too_long(longer) THEN "False"
              ELSE is_name_ok_loop(r, token_lengths, offset + 1, left - 1, longer)

\* "True", "False", or "TypeError" when a byte it reads is not in the buffer.
is_name_ok(r, token_lengths, offset) ==
    LET n_tokens == Ord(r, offset) IN
    IF n_tokens < 0 THEN "TypeError"
    ELSE IF n_tokens = 0 \/ n_tokens >= KSYM_NAME_LEN THEN "False"
    ELSE is_name_ok_loop(r, token_lengths, offset + 1, n_tokens, 0)

RECURSIVE extract_tokens(_, _, _, _)
extract_tokens(r, tokens, offset, left) ==
    IF left = 0 THEN <<>>
    ELSE tokens[Ord(r, offset) + 1] \o extract_tokens(r, tokens, offset + 1, left - 1)

\* The bytes of the name whose entry starts at offset.
extract_name(r, tokens, offset) ==
    extract_tokens(r, tokens, offset + 1, Ord(r, offset))

\* What bytes.decode() gives where it raises UnicodeDecodeError.
DecodeError == <<-1>>

Continuation(b) == 128 <= b /\ b <= 191

RECURSIVE decode_from(_, _)
\* The code points of the UTF-8 bytes bs from index i on; <<-1>> in front of
\* the rest where a byte sequence is not valid UTF-8.
decode_from(bs, i) ==
    IF i > Len(bs) THEN <<>>
    ELSE
    LET b0 == bs[i]
        have(k) == i + k <= Len(bs)
        c(k) == bs[i + k]
    IN  IF b0 < 128 THEN <<b0>> \o decode_from(bs, i + 1)
        ELSE IF 194 <= b0 /\ b0 <= 223 /\ have(1) /\ Continuation(c(1))
        THEN <<(b0 - 192) * 64 + (c(1) - 128)>> \o decode_from(bs, i + 2)
        ELSE IF /\ 224 <= b0 /\ b0 <= 239 /\ have(2)
                /\ Continuation(c(1)) /\ Continuation(c(2))
                /\ (b0 = 224 => c(1) >= 160)
                /\ (b0 = 237 => c(1) <= 159)
        THEN <<(b0 - 224) * 4096 + (c(1) - 128) * 64 + (c(2) - 128)>>
             \o decode_from(bs, i + 3)
        ELSE IF /\ 240 <= b0 /\ b0 <= 244 /\ have(3)
                /\ Continuation(c(1)) /\ Continuation(c(2)) /\ Continuation(c(3))
                /\ (b0 = 240 => c(1) >= 144)
                /\ (b0 = 244 => c(1) <= 143)
        THEN <<(b0 - 240) * 262144 + (c(1) - 128) * 4096
               + (c(2) - 128) * 64 + (c(3) - 128)>> \o decode_from(bs, i + 4)
        ELSE DecodeError

\* bytes.decode(): the code points, or DecodeError.
decode(bs) ==
    IF \A i \in 1..Len(bs) : bs[i] < 128 THEN bs
    ELSE LET cps == decode_from(bs, 1)
         IN  IF \E i \in 1..Len(cps) : cps[i] < 0 THEN DecodeError ELSE cps

\* A variant that compares the count of the entries after this one; C6
\* does not hold of it.
count_matches_after(count, num_syms) == Digits(count - 1) = num_syms

\* name_counts[-1] == num_syms
count_matches(count, num_syms) == Digits(count) = num_syms

RECURSIVE probe_num_syms(_, _, _, _, _)
\* The for loop over (-4, -8, -12, -16); i is the distance tried.
probe_num_syms(r, e, offset, count, i) ==
    IF i > 16 THEN [kind |-> "none", offset |-> 0]
    ELSE
    LET bs == Slice(r, offset - i, offset - i + 4) IN
    IF Len(bs) # 4 THEN [kind |-> "error", offset |-> offset - i]
    ELSE
    LET num_syms == unpack_unsigned(e, bs) IN
    IF count_matches(count, num_syms) THEN [kind |-> "found", offset |-> offset - i]
    ELSE IF num_syms # <<>> THEN [kind |-> "none", offset |-> 0]
    ELSE probe_num_syms(r, e, offset, count, i + 4)

RECURSIVE parse_names(_, _, _, _)
\* The final for loop: count names, read forward from offset.
parse_names(r, tokens, offset, count) ==
    IF count = 0 THEN <<>>
    ELSE <<decode(extract_name(r, tokens, offset))>>
         \o parse_names(r, tokens, offset + Ord(r, offset) + 1, count - 1)

NumSymsResult(kind, count_offset, found, offset, counts) ==
    [kind |-> kind, num_syms_offset |-> count_offset, names |-> found,
     offset |-> offset, name_counts |-> counts]

\* A variant that lets an entry end one byte past markers_offset; C7 does
\* not hold of it.
spans_past_one(next_name_offset, markers_off) == next_name_offset > markers_off + 1

\* next_name_offset > markers_offset
spans_past(next_name_offset, markers_off) == next_name_offset > markers_off

\* list[k], which counts k < 0 from the end of the list.
Item(list, k) == IF k < 0 THEN list[Len(list) + k + 1] ELSE list[k + 1]

\* What the body of the while loop appends to name_counts at offset
\* (the offset already decremented), or TypeError.
name_count_at(r, token_lengths, markers_off, offset, counts, trailing) ==
    LET current_byte == Ord(r, offset)
        still == trailing /\ current_byte = 0
        next_name_offset == offset + current_byte + 1
    IN  IF current_byte < 0 THEN TypeError
        ELSE IF spans_past(next_name_offset, markers_off)
        THEN (IF still THEN 0 ELSE None)
        ELSE
        LET next_name_count == Item(counts, markers_off - next_name_offset) IN
        IF next_name_count = None THEN None
        ELSE
        LET ok == is_name_ok(r, token_lengths, offset) IN
        IF ok = "TypeError" THEN TypeError
        ELSE IF ok = "True" THEN next_name_count + 1
        ELSE (IF still THEN 0 ELSE None)

RECURSIVE find_num_syms_loop(_, _, _, _, _, _, _)
find_num_syms_loop(r, e, tokens, markers_off, offset, counts, trailing) ==
    IF offset < 9 THEN NumSymsResult("return", 0, <<>>, offset, counts)
    ELSE
    LET here == offset - 1
        token_lengths == [t \in 1..Len(tokens) |-> Len(tokens[t])]
        count == name_count_at(r, token_lengths, markers_off, here, counts, trailing)
        still == trailing /\ Ord(r, here) = 0
    IN  IF count = TypeError THEN NumSymsResult("error", 0, <<>>, here, counts)
        ELSE
        LET appended == Append(counts, count) IN
        \* Only the branch of is_name_ok appends a count above 0.
        IF count <= 0
        THEN find_num_syms_loop(r, e, tokens, markers_off, here, appended, still)
        ELSE
        LET probe == probe_num_syms(r, e, here, count, 4) IN
        IF probe.kind = "error"
        THEN NumSymsResult("error", 0, <<>>, here, appended)
        ELSE IF probe.kind = "none"
        THEN find_num_syms_loop(r, e, tokens, markers_off, here, appended, still)
        ELSE
        LET found == parse_names(r, tokens, here, count) IN
        IF \E i \in 1..Len(found) : found[i] = DecodeError
        THEN NumSymsResult("error", probe.offset, <<>>, here, appended)
        ELSE NumSymsResult("yield", probe.offset, found, here, appended)

find_num_syms(r, e, tokens, markers_off) ==
    find_num_syms_loop(r, e, tokens, markers_off, markers_off, <<0>>, TRUE)

-----------------------------------------------------------------------------
(* The address finders                                                     *)

\* p & ~(a - 1), for a a power of two: p rounded down to a multiple of a.
align_up(p, a) == (p \div a) * a

\* (p + (a - 1)) & ~(a - 1): p rounded up to a multiple of a.
align(p, a) == ((p + (a - 1)) \div a) * a

Candidate(offset, end, found) ==
    [offset |-> offset, end |-> end, addresses |-> found]

Yields(cs) == [kind |-> "yield", candidates |-> cs]

RECURSIVE read_addresses(_, _, _, _, _, _)
\* The for loop of find_addresses_no_kallsyms_base_relative: left addresses
\* are still to be read, found are those read.
read_addresses(r, e, size, offset, left, found) ==
    IF left = 0 THEN [kind |-> "done", end |-> offset, addresses |-> found]
    ELSE
    LET bs == Slice(r, offset, offset + size) IN
    IF Len(bs) # size THEN [kind |-> "error", end |-> offset, addresses |-> found]
    ELSE
    LET address == unpack_unsigned(e, bs) IN
    IF Len(found) > 0 /\ Less(address, found[Len(found)])
    THEN [kind |-> "return", end |-> offset, addresses |-> found]
    ELSE read_addresses(r, e, size, offset + size, left - 1, Append(found, address))

find_addresses_no_kallsyms_base_relative(r, e, offset, num_syms, size) ==
    IF offset + num_syms * size > Len(r) THEN Yields(<<>>)
    ELSE
    LET start == IF size = 8 /\ offset % 8 # 0 THEN offset - 4 ELSE offset
        read == read_addresses(r, e, size, start, num_syms, <<>>)
    IN  IF read.kind = "error" THEN [kind |-> "error", candidates |-> <<>>]
        ELSE IF read.kind = "return" THEN Yields(<<>>)
        ELSE Yields(<<Candidate(start, read.end, read.addresses)>>)

\* The i-th of the num_syms signed 32-bit values at offset, as its four
\* bytes, least significant first.
raw_address(r, e, offset, i) ==
    LET bs == Slice(r, offset + 4 * (i - 1), offset + 4 * i)
    IN  IF e = "<" THEN bs ELSE Reverse(bs)

\* raw >= 0, for a signed 32-bit raw.
NonNegative(raw) == raw[4] < 128

\* raw & 0xFFFFFFFF
Unsigned32(raw) == Strip(raw)

\* -1 - raw, for raw < 0: the value of the complemented bits.
MinusOneMinus(raw) == Strip([i \in 1..4 |-> 255 - raw[i]])

\* !KALLSYMS_ABSOLUTE_PERCPU
non_percpu_address(relative_base, raw) == Add(relative_base, Unsigned32(raw))

\* KALLSYMS_ABSOLUTE_PERCPU
percpu_address(relative_base, raw) ==
    IF NonNegative(raw) THEN Unsigned32(raw)
    ELSE Add(relative_base, MinusOneMinus(raw))

\* A variant that yields the percpu decoding first; C3 does not hold of it.
percpu_candidates_first(offset, end, relative_base_end, non_percpu, percpu) ==
    (IF NonDecreasing(percpu)
     THEN <<Candidate(offset, relative_base_end, percpu)>> ELSE <<>>)
    \o
    (IF NonDecreasing(non_percpu)
     THEN <<Candidate(offset, end, non_percpu)>> ELSE <<>>)

\* The candidates of one base-relative array, in the order of the yields.
base_relative_candidates(offset, end, relative_base_end, non_percpu, percpu) ==
    (IF NonDecreasing(non_percpu)
     THEN <<Candidate(offset, end, non_percpu)>> ELSE <<>>)
    \o
    (IF NonDecreasing(percpu)
     THEN <<Candidate(offset, relative_base_end, percpu)>> ELSE <<>>)

find_addresses_kallsyms_base_relative(r, e, offset, num_syms, size) ==
    IF offset < 0 THEN Yields(<<>>)
    ELSE
    LET addresses_end == offset + num_syms * 4
        relative_base_offset == align(addresses_end, size)
        relative_base_end == relative_base_offset + size
    IN  IF relative_base_end > Len(r) THEN Yields(<<>>)
        ELSE
        LET raw(i) == raw_address(r, e, offset, i)
            kallsyms_relative_base ==
                unpack_unsigned(e, Slice(r, relative_base_offset, relative_base_end))
            non_percpu == [i \in 1..num_syms |->
                              non_percpu_address(kallsyms_relative_base, raw(i))]
            percpu == [i \in 1..num_syms |->
                          percpu_address(kallsyms_relative_base, raw(i))]
        IN  Yields(base_relative_candidates(offset, addresses_end,
                                            relative_base_end, non_percpu, percpu))

\* The offset find_kallsyms_in_rodata passes to the address finder.
addresses_offset_of(count_offset, index_offset, num_syms, size, relative, first) ==
    IF relative
    THEN IF first
         THEN align_up(align_up(count_offset, size) - size - num_syms * 4, size)
         ELSE align(index_offset + 512, size)
    ELSE IF first
         THEN count_offset - num_syms * size
         ELSE index_offset + 512

find_addresses(r, e, count_offset, index_offset, num_syms, size, relative, first) ==
    LET offset == addresses_offset_of(count_offset, index_offset, num_syms,
                                      size, relative, first)
    IN  IF relative
        THEN find_addresses_kallsyms_base_relative(r, e, offset, num_syms, size)
        ELSE find_addresses_no_kallsyms_base_relative(r, e, offset, num_syms, size)

\* zip(addresses, names)
zip(a, b) ==
    LET n == IF Len(a) < Len(b) THEN Len(a) ELSE Len(b)
    IN  [i \in 1..n |-> <<a[i], b[i]>>]

-----------------------------------------------------------------------------
(* find_token_indices and find_token_tables                                *)

\* The number of tokens, and of elements of kallsyms_token_index.
NumTokens == 256

\* The size of kallsyms_token_index in bytes.
TokenIndexSize == 512

Min(S) == CHOOSE x \in S : \A y \in S : x <= y
Max(S) == CHOOSE x \in S : \A y \in S : x >= y

\* rodata.find(b"\x00\x00\x00", start), for start >= 0.
find_zeroes(r, start) ==
    LET at == {i \in start..(Len(r) - 3) :
                  r[i + 1] = 0 /\ r[i + 2] = 0 /\ r[i + 3] = 0}
    IN  IF at = {} THEN -1 ELSE Min(at)

\* rodata.rfind(b"\x00", 0, end), for end >= 0.
rfind_zero(r, end) ==
    LET last == IF end > Len(r) THEN Len(r) ELSE end
        at == {i \in 0..(last - 1) : r[i + 1] = 0}
    IN  IF at = {} THEN -1 ELSE Max(at)

\* struct.unpack(endianness + "H", rodata[offset : offset + 2]) where the two
\* bytes are in the buffer.
unpack_short(r, e, offset) ==
    LET bs == Slice(r, offset, offset + 2)
    IN  IF e = "<" THEN bs[1] + 256 * bs[2] ELSE bs[2] + 256 * bs[1]

\* The indices, or <<>> for None.  The first index is 0 where
\* find_token_indices calls it, so the assertion holds.
try_parse_token_index(r, e, offset) ==
    LET indices == [i \in 1..NumTokens |-> unpack_short(r, e, offset + 2 * (i - 1))]
    IN  IF \A i \in 2..NumTokens : indices[i] > indices[i - 1]
        THEN indices ELSE <<>>

\* The tokens, or <<>> for None.
try_parse_token_table(r, indices, start_offset, end_offset) ==
    LET token(i) ==
            Slice(r, start_offset + indices[i],
                  IF i = NumTokens THEN end_offset
                  ELSE start_offset + indices[i + 1])
        body(i) == SubSeq(token(i), 1, Len(token(i)) - 1)
        bodies == [i \in 1..NumTokens |-> body(i)]
    IN  IF /\ \A i \in 1..NumTokens :
                 /\ Len(token(i)) >= 1
                 /\ token(i)[Len(token(i))] = 0
                 /\ \A k \in 1..Len(bodies[i]) : bodies[i][k] # 0
           /\ Cardinality({bodies[i] : i \in 1..NumTokens}) = NumTokens
        THEN bodies ELSE <<>>

RECURSIVE skip_padding(_, _)
\* The while loop of find_token_tables.
skip_padding(r, end) ==
    IF Slice(r, end - 2, end - 1) = <<0>> THEN skip_padding(r, end - 1) ELSE end

\* What find_token_tables yields: at most one token table.
find_token_tables(r, indices, index_offset) ==
    LET token_table_end_offset == skip_padding(r, index_offset)
        last_token_offset == rfind_zero(r, token_table_end_offset - 1) + 1
        table_offset == last_token_offset - indices[NumTokens]
    IN  IF last_token_offset = 0 \/ table_offset < 0
        THEN [kind |-> "return", offset |-> 0, tokens |-> <<>>]
        ELSE
        LET tokens == try_parse_token_table(r, indices, table_offset,
                                            token_table_end_offset)
        IN  IF tokens = <<>>
            THEN [kind |-> "return", offset |-> 0, tokens |-> <<>>]
            ELSE [kind |-> "yield", offset |-> table_offset, tokens |-> tokens]

-----------------------------------------------------------------------------
(* find_kallsyms_in_rodata: the nested loops, one step per layer           *)

\* for marker_fmt, marker_size in ((endianness + "I", 4), (endianness + "Q", 8))
marker_sizes == <<4, 8>>
\* for word in (WORD64, WORD32)
words == <<8, 4>>
\* for base_relative in (False, True)
base_relatives == <<FALSE, TRUE>>
\* for addresses_first in (True, False)
addresses_firsts == <<TRUE, FALSE>>

\* One pass of the while loop of find_token_indices; at its break the
\* driver goes on to the next endianness, or returns [].
TokenIndexStep ==
    /\ pc = "token_index"
    /\ LET next == find_zeroes(rodata, token_index_offset) + 1 IN
       IF next = 0 \/ next + TokenIndexSize > Len(rodata)
       THEN IF endianness = "<"
            THEN /\ endianness' = ">"
                 /\ token_index_offset' = 0
                 /\ UNCHANGED <<pc, token_index, result>>
            ELSE /\ pc' = "done"
                 /\ result' = <<>>
                 /\ UNCHANGED <<endianness, token_index_offset, token_index>>
       ELSE LET parsed == try_parse_token_index(rodata, endianness, next) IN
            /\ token_index_offset' = next
            /\ IF parsed = <<>>
               THEN UNCHANGED <<pc, token_index>>
               ELSE token_index' = parsed /\ pc' = "token_table"
            /\ UNCHANGED <<endianness, result>>
    /\ UNCHANGED <<rodata, token_table_offset, token_table, markers_end_offset,
                   marker_size, markerVars, nameVars, addressVars, built>>

TokenTableStep ==
    /\ pc = "token_table"
    /\ LET found == find_token_tables(rodata, token_index, token_index_offset) IN
       IF found.kind = "yield"
       THEN /\ token_table_offset' = found.offset
            /\ token_table' = found.tokens
            \* range(token_table_offset, -4, -4) starts at token_table_offset
            /\ markers_end_offset' = found.offset
            /\ marker_size' = marker_sizes[1]
            /\ pc' = "markers"
       ELSE /\ pc' = "token_index"
            /\ UNCHANGED <<token_table_offset, token_table, markers_end_offset,
                           marker_size>>
    /\ UNCHANGED <<rodata, endianness, token_index_offset, token_index,
                   markerVars, nameVars, addressVars, result, built>>

\* The next marker size, or the next element of
\* range(token_table_offset, -4, -4); past its end, find_token_tables and
\* then find_token_indices go on.
NextMarkers ==
    IF marker_size = marker_sizes[1]
    THEN /\ marker_size' = marker_sizes[2]
         /\ pc' = "markers"
         /\ UNCHANGED markers_end_offset
    ELSE IF markers_end_offset - 4 > -4
    THEN /\ markers_end_offset' = markers_end_offset - 4
         /\ marker_size' = marker_sizes[1]
         /\ pc' = "markers"
    ELSE /\ pc' = "token_index"
         /\ UNCHANGED <<markers_end_offset, marker_size>>

MarkersStep ==
    /\ pc = "markers"
    /\ LET found == find_markers(rodata, endianness, marker_size,
                                 markers_end_offset - marker_size) IN
       IF found.kind = "error"
       THEN /\ pc' = "error"
            /\ UNCHANGED <<markers_end_offset, marker_size, markerVars>>
       ELSE IF found.kind = "yield"
       THEN /\ markers_offset' = found.offset
            /\ markers' = found.markers
            /\ pc' = "num_syms"
            /\ UNCHANGED <<markers_end_offset, marker_size>>
       ELSE /\ NextMarkers
            /\ UNCHANGED markerVars
    /\ UNCHANGED <<rodata, endianness, tokenVars, nameVars, addressVars,
                   result, built>>

NumSymsStep ==
    /\ pc = "num_syms"
    /\ LET found == find_num_syms(rodata, endianness, token_table, markers_offset) IN
       IF found.kind = "error"
       THEN /\ pc' = "error"
            /\ UNCHANGED <<markers_end_offset, marker_size, nameVars, word,
                           base_relative, addresses_first>>
       ELSE IF found.kind = "yield"
       THEN /\ num_syms_offset' = found.num_syms_offset
            /\ names' = found.names
            /\ names_offset' = found.offset
            /\ name_counts' = found.name_counts
            /\ word' = words[1]
            /\ base_relative' = base_relatives[1]
            /\ addresses_first' = addresses_firsts[1]
            /\ pc' = "addresses"
            /\ UNCHANGED <<markers_end_offset, marker_size>>
       ELSE /\ NextMarkers
            /\ UNCHANGED <<nameVars, word, base_relative, addresses_first>>
    /\ UNCHANGED <<rodata, endianness, tokenVars, markerVars, candidates,
                   result, built>>

\* The next (word, base_relative, addresses_first); past the last, the
\* loops over the markers go on.
NextAddresses ==
    IF addresses_first = addresses_firsts[1]
    THEN /\ addresses_first' = addresses_firsts[2]
         /\ UNCHANGED <<word, base_relative, pc, markers_end_offset, marker_size>>
    ELSE IF base_relative = base_relatives[1]
    THEN /\ base_relative' = base_relatives[2]
         /\ addresses_first' = addresses_firsts[1]
         /\ UNCHANGED <<word, pc, markers_end_offset, marker_size>>
    ELSE IF word = words[1]
    THEN /\ word' = words[2]
         /\ base_relative' = base_relatives[1]
         /\ addresses_first' = addresses_firsts[1]
         /\ UNCHANGED <<pc, markers_end_offset, marker_size>>
    ELSE /\ NextMarkers
         /\ UNCHANGED <<word, base_relative, addresses_first>>

AddressesStep ==
    /\ pc = "addresses"
    /\ LET found == find_addresses(rodata, endianness, num_syms_offset,
                                   token_index_offset, Len(names), word,
                                   base_relative, addresses_first) IN
       IF found.kind = "error"
       THEN /\ pc' = "error"
            /\ UNCHANGED <<markers_end_offset, marker_size, addressVars, result>>
       ELSE /\ candidates' = found.candidates
            /\ IF found.candidates # <<>>
               THEN /\ result' = zip(found.candidates[1].addresses, names)
                    /\ pc' = "done"
                    /\ UNCHANGED <<markers_end_offset, marker_size, word,
                                   base_relative, addresses_first>>
               ELSE /\ NextAddresses
                    /\ UNCHANGED result
    /\ UNCHANGED <<rodata, endianness, tokenVars, markerVars, nameVars, built>>

-----------------------------------------------------------------------------
(* Inputs                                                                  *)

Repeat(b, n) == [i \in 1..n |-> b]

Zeroes(n) == Repeat(0, n)

\* The four bytes of n < 65536 as an unsigned 32-bit value.
U32Bytes(n, e) ==
    IF e = "<" THEN <<n % 256, n \div 256, 0, 0>>
    ELSE <<0, 0, n \div 256, n % 256>>

RECURSIVE Strings(_, _)
\* The sequences of n elements of S.
Strings(S, n) ==
    IF n = 0 THEN {<<>>}
    ELSE {<<x>> \o s : x \in S, s \in Strings(S, n - 1)}

RECURSIVE Concatenations(_, _)
\* The concatenations of n elements of the set W of sequences.
Concatenations(W, n) ==
    IF n = 0 THEN {<<>>}
    ELSE {w \o s : w \in W, s \in Concatenations(W, n - 1)}

\* A token table as the kernel builds it: "a", "b", "_", and a two-character
\* filler for every other byte.
PlainTokens ==
    [i \in 1..NumTokens |->
        IF i = 1 THEN <<97>>
        ELSE IF i = 2 THEN <<98>>
        ELSE IF i = 3 THEN <<95>>
        ELSE <<48 + ((i - 1) \div 16), 48 + ((i - 1) % 16)>>]

\* The same with two long tokens: with token 1 of 256 bytes and token 2 of
\* 255, the name of tokens (1, 2) has 511 bytes and that of (1, 1) has 512.
LongTokens ==
    [i \in 1..NumTokens |->
        IF i = 2 THEN Repeat(98, 256)
        ELSE IF i = 3 THEN Repeat(95, 255)
        ELSE PlainTokens[i]]

\* The same with a token that is not UTF-8 and one that is two-byte UTF-8.
ByteTokens ==
    [i \in 1..NumTokens |->
        IF i = 2 THEN <<195, 169>>
        ELSE IF i = 3 THEN <<255>>
        ELSE PlainTokens[i]]

Idle ==
    /\ token_index_offset = 0
    /\ token_index = <<>>
    /\ token_table_offset = 0
    /\ token_table = <<>>
    /\ markers_end_offset = 0
    /\ marker_size = marker_sizes[1]
    /\ markers_offset = 0
    /\ markers = <<>>
    /\ num_syms_offset = 0
    /\ names = <<>>
    /\ names_offset = 0
    /\ name_counts = <<>>
    /\ word = words[1]
    /\ base_relative = base_relatives[1]
    /\ addresses_first = addresses_firsts[1]
    /\ candidates = <<>>
    /\ result = <<>>

-----------------------------------------------------------------------------
(* find_markers and the sweep of markers_end_offset, on buffers of words   *)

MaxMarkerWords == 4

MarkerWords == {<<0, 0, 0, 0>>, <<1, 0, 0, 0>>, <<2, 0, 0, 0>>, <<0, 0, 0, 1>>}

MarkerBuffers ==
    UNION {Concatenations(MarkerWords, n) : n \in 1..MaxMarkerWords}

InitMarkers ==
    /\ rodata \in MarkerBuffers
    /\ endianness \in {"<", ">"}
    /\ pc = "markers"
    /\ built = "words"
    /\ token_index_offset = 0
    /\ token_index = <<>>
    /\ token_table_offset \in {o \in (Len(rodata) - 3)..Len(rodata) : o >= 0}
    /\ token_table = <<>>
    /\ markers_end_offset = token_table_offset
    /\ marker_size = marker_sizes[1]
    /\ markers_offset = 0
    /\ markers = <<>>
    /\ num_syms_offset = 0
    /\ names = <<>>
    /\ names_offset = 0
    /\ name_counts = <<>>
    /\ word = words[1]
    /\ base_relative = base_relatives[1]
    /\ addresses_first = addresses_firsts[1]
    /\ candidates = <<>>
    /\ result = <<>>

SpecMarkers == InitMarkers /\ [][MarkersStep]_vars

-----------------------------------------------------------------------------
(* find_num_syms, on a count, a gap, some bytes and their zero padding,    *)
(* followed by the first marker                                            *)

MaxBody == 4
MaxCount == 3

NameBytes == {0, 1, 2}
NameJunk == {<<>>, <<9, 9, 9, 9>>, Zeroes(12)}
NameGaps == {0, 4}
NamePads == {0, 3, 8}
NameTables == {"plain", "long", "bytes"}

NameTable(table) ==
    CASE table = "plain" -> PlainTokens
      [] table = "long" -> LongTokens
      [] table = "bytes" -> ByteTokens

\* Every shape with the plain tokens; one shape with the long tokens and
\* with the tokens that are not ASCII.
NameShapes ==
    {s \in [table : NameTables, junk : NameJunk, gap : NameGaps, pad : NamePads] :
        s.table # "plain" => s.junk = <<9, 9, 9, 9>> /\ s.gap = 0 /\ s.pad = 3}

InitNames ==
    /\ endianness \in {"<", ">"}
    /\ \E s \in NameShapes, n \in 1..MaxCount, size \in 1..MaxBody :
          \E body \in Strings(NameBytes, size) :
             /\ token_table \in {NameTable(s.table)}
             /\ rodata = s.junk \o U32Bytes(n, endianness) \o Zeroes(s.gap)
                         \o body \o Zeroes(s.pad) \o <<0, 0, 0, 0>>
    /\ pc = "num_syms"
    /\ built = "names"
    /\ token_index_offset = 0
    /\ token_index = <<>>
    /\ token_table_offset = Len(rodata)
    /\ markers_end_offset = Len(rodata)
    /\ marker_size = marker_sizes[1]
    /\ markers_offset = Len(rodata) - 4
    /\ markers = <<<<>>>>
    /\ num_syms_offset = 0
    /\ names = <<>>
    /\ names_offset = 0
    /\ name_counts = <<>>
    /\ word = words[1]
    /\ base_relative = base_relatives[1]
    /\ addresses_first = addresses_firsts[1]
    /\ candidates = <<>>
    /\ result = <<>>

SpecNames == InitNames /\ [][NumSymsStep]_vars

-----------------------------------------------------------------------------
(* The address finders, on buffers of words and every count offset         *)

MaxAddrWords == 5
MaxAddrs == 2

AddrWords == {<<0, 0, 0, 0>>, <<1, 0, 0, 0>>, <<255, 255, 255, 255>>}

AddrBuffers ==
    UNION {Concatenations(AddrWords, n) : n \in 1..MaxAddrWords}

InitAddresses ==
    /\ rodata \in AddrBuffers
    /\ endianness \in {"<", ">"}
    /\ pc = "addresses"
    /\ built = "words"
    /\ token_index_offset = Len(rodata)
    /\ token_index = <<>>
    /\ token_table_offset = Len(rodata)
    /\ token_table = <<>>
    /\ markers_end_offset = Len(rodata)
    /\ marker_size = marker_sizes[2]
    /\ markers_offset = Len(rodata)
    /\ markers = <<>>
    /\ num_syms_offset \in {o \in 0..Len(rodata) : o % 2 = 0}
    /\ names \in {[i \in 1..n |-> <<97>>] : n \in 1..MaxAddrs}
    /\ names_offset = Len(rodata)
    /\ name_counts = <<>>
    /\ word \in {words[1], words[2]}
    /\ base_relative \in BOOLEAN
    /\ addresses_first = addresses_firsts[1]
    /\ candidates = <<>>
    /\ result = <<>>

SpecAddresses == InitAddresses /\ [][AddressesStep]_vars

-----------------------------------------------------------------------------
(* find_kallsyms_in_rodata, on buffers assembled as the kernel lays the    *)
(* tables out, and on buffers with no tables                               *)

MaxNames == 3

RECURSIVE Flatten(_, _, _)
\* seqs[lo] \o ... \o seqs[hi]
Flatten(seqs, lo, hi) ==
    IF lo > hi THEN <<>>
    ELSE IF lo = hi THEN seqs[lo]
    ELSE LET mid == (lo + hi) \div 2
         IN  Flatten(seqs, lo, mid) \o Flatten(seqs, mid + 1, hi)

\* s, zero-padded to a multiple of a bytes.
PadTo(s, a) == s \o Zeroes((a - (Len(s) % a)) % a)

\* kallsyms_token_table: the tokens, each with its terminating zero.
TableBytes(tokens) ==
    Flatten([i \in 1..NumTokens |-> tokens[i] \o <<0>>], 1, NumTokens)

\* kallsyms_token_index: the offset of each token in the table.
IndexBytes(tokens, e) ==
    LET ends == [i \in 1..NumTokens |-> tokens[i] \o <<0>>]
        at(i) == Len(Flatten(ends, 1, i - 1))
        short(v) == IF e = "<" THEN <<v % 256, v \div 256>>
                    ELSE <<v \div 256, v % 256>>
    IN  Flatten([i \in 1..NumTokens |-> short(at(i))], 1, NumTokens)

PlainTable == TableBytes(PlainTokens)
PlainIndexLittle == IndexBytes(PlainTokens, "<")
PlainIndexBig == IndexBytes(PlainTokens, ">")
PlainIndex(e) == IF e = "<" THEN PlainIndexLittle ELSE PlainIndexBig

\* The digits of a number as size bytes in the byte order e.
WordBytes(digits, size, e) ==
    LET little == digits \o Zeroes(size - Len(digits))
    IN  IF e = "<" THEN little ELSE Reverse(little)

\* A name entry: the number of its tokens, then the tokens.
EntryBytes(entry) == <<Len(entry)>> \o entry

\* The name an entry stands for, as code points (the tokens are ASCII).
EntryName(entry) ==
    Flatten([k \in 1..Len(entry) |-> PlainTokens[entry[k] + 1]], 1, Len(entry))

Entries == {<<0>>, <<2, 0, 0, 0>>}

NameLists == UNION {Strings(Entries, n) : n \in 1..MaxNames}

\* 0xffffffff81000000
RelativeBase == <<0, 0, 0, 129, 255, 255, 255, 255>>

\* The k-th address of a layout of each kind, k < 8.
\* absolute, 64 bits: 0xffffffff80000000 + 16 k; 32 bits: 0x80000000 + 16 k
AbsoluteAddress(k, size) ==
    IF size = 8 THEN <<16 * (k - 1), 0, 0, 128, 255, 255, 255, 255>>
    ELSE <<16 * (k - 1), 0, 0, 128>>

\* relative: the offsets 0, 0x20, 0x40, ... from RelativeBase
RelativeRaw(k) == <<32 * (k - 1), 0, 0, 0>>
RelativeAddress(k) == <<32 * (k - 1), 0, 0, 129, 255, 255, 255, 255>>

\* percpu: the absolute 0x1234, then -1, -0x21, -0x41, ... which stand for
\* RelativeBase, RelativeBase + 0x20, ...
PercpuRaw(k) ==
    IF k = 1 THEN <<52, 18, 0, 0>>
    ELSE <<255 - 32 * (k - 2), 255, 255, 255>>
PercpuAddress(k) ==
    IF k = 1 THEN <<52, 18>>
    ELSE <<32 * (k - 2), 0, 0, 129, 255, 255, 255, 255>>

LayoutKinds ==
    {[e |-> "<", size |-> 8, kind |-> "absolute", first |-> TRUE],
     [e |-> ">", size |-> 8, kind |-> "absolute", first |-> TRUE],
     [e |-> ">", size |-> 4, kind |-> "absolute", first |-> TRUE],
     [e |-> "<", size |-> 8, kind |-> "relative", first |-> TRUE],
     [e |-> "<", size |-> 8, kind |-> "percpu", first |-> TRUE],
     [e |-> "<", size |-> 8, kind |-> "relative", first |-> FALSE]}

\* kallsyms_addresses, or kallsyms_offsets and kallsyms_relative_base.
AddressRegion(l, n) ==
    IF l.kind = "absolute"
    THEN Flatten([k \in 1..n |-> WordBytes(AbsoluteAddress(k, l.size), l.size, l.e)],
                 1, n)
    ELSE PadTo(Flatten([k \in 1..n |->
                          WordBytes(IF l.kind = "relative" THEN RelativeRaw(k)
                                    ELSE PercpuRaw(k), 4, l.e)], 1, n), l.size)
         \o WordBytes(RelativeBase, l.size, l.e)

ExpectedAddress(l, k) ==
    IF l.kind = "absolute" THEN Strip(AbsoluteAddress(k, l.size))
    ELSE IF l.kind = "relative" THEN RelativeAddress(k)
    ELSE PercpuAddress(k)

\* What precedes kallsyms_num_syms where the addresses come last: words of
\* 32 bits that decrease, 0x7A7A7A7A down to 0x56565656, sorted in no
\* encoding.
Lead == Flatten([k \in 1..10 |-> Repeat(126 - 4 * k, 4)], 1, 10)

\* The buffer of a layout: every table aligned to the word size.
Assemble(l, entries) ==
    LET n == Len(entries)
        before == IF l.first THEN AddressRegion(l, n) ELSE Lead
        count == PadTo(U32Bytes(n, l.e), l.size)
        named == PadTo(Flatten([k \in 1..n |-> EntryBytes(entries[k])], 1, n), l.size)
        marked == PadTo(<<0, 0, 0, 0>>, l.size)
        tabled == PadTo(PlainTable, l.size)
        after == IF l.first THEN <<>> ELSE AddressRegion(l, n)
    IN  [rodata |-> before \o count \o named \o marked \o tabled
                    \o PlainIndex(l.e) \o after,
         names_offset |-> Len(before) + Len(count),
         markers_offset |-> Len(before) + Len(count) + Len(named),
         expected |-> [k \in 1..n |-> <<ExpectedAddress(l, k), EntryName(entries[k])>>]]

\* Buffers with no tables: too short, without three zeroes, with a token
\* index and no token table before it, and with both but nothing else.
Garbage ==
    {<<>>, <<1, 2, 3>>, <<0, 0, 0>>, Repeat(7, 600), Zeroes(600),
     <<0>> \o PlainIndexLittle,
     PlainTable \o PlainIndexLittle,
     <<5>> \o PlainTable \o PlainIndexLittle,
     Repeat(7, 7) \o <<0>> \o PlainTable \o PlainIndexBig,
     Repeat(7, 12) \o PlainTable \o PlainIndexLittle}

Start ==
    /\ pc = "token_index"
    /\ endianness = "<"
    /\ Idle

InitAssembled ==
    /\ \E l \in LayoutKinds, entries \in NameLists :
          LET a == Assemble(l, entries) IN
          /\ rodata = a.rodata
          /\ built = [kind |-> "assembled", layout |-> l,
                      names_offset |-> a.names_offset,
                      markers_offset |-> a.markers_offset,
                      expected |-> a.expected]
    /\ Start

InitGarbage ==
    /\ rodata \in Garbage
    /\ built = [kind |-> "garbage"]
    /\ Start

Init == InitAssembled \/ InitGarbage

Next ==
    \/ TokenIndexStep
    \/ TokenTableStep
    \/ MarkersStep
    \/ NumSymsStep
    \/ AddressesStep

Spec == Init /\ [][Next]_vars

-----------------------------------------------------------------------------
(* Properties of find_markers, under SpecMarkers                           *)

\* C8: every markers array find_markers yields, for marker size 4 or 8 and
\* with or without a first element skipped as padding, is non-empty, starts
\* with 0 and is strictly increasing; with marker size 4 it never has
\* exactly two elements.
MarkersWellFormed ==
    pc = "num_syms" =>
        /\ Len(markers) >= 1
        /\ markers[1] = <<>>
        /\ \A i \in 1..(Len(markers) - 1) :
              markers[i] # markers[i + 1] /\ Less(markers[i], markers[i + 1])
        /\ (marker_size = 4 => Len(markers) # 2)

\* C8: markers of size 4 with three elements or more are yielded after the
\* first element read was skipped as padding.
MarkersAfterPadding ==
    /\ pc = "num_syms"
    /\ marker_size = 4
    /\ Len(markers) >= 3
    /\ markers_offset + 4 * Len(markers) < markers_end_offset

-----------------------------------------------------------------------------
(* Properties of find_num_syms, under SpecNames                            *)

\* The byte of the buffer at offset p; 0 where there is none.
ByteAt(p) == IF 0 <= p /\ p < Len(rodata) THEN rodata[p + 1] ELSE 0

RECURSIVE EntriesEnd(_, _)
\* The offset just past k name entries read forward from p.
EntriesEnd(p, k) ==
    IF k = 0 THEN p ELSE EntriesEnd(p + 1 + ByteAt(p), k - 1)

\* The sum of (1 + n_tokens) over the entries of the yielded names.
encoded_length == EntriesEnd(names_offset, Len(names)) - names_offset

ZeroBetween(p, q) == \A k \in p..(q - 1) : ByteAt(k) = 0

\* C6: when find_num_syms yields, the number of names is the unsigned
\* 32-bit value stored at num_syms_offset in the branch's endianness, and
\* it is at least 1.
CountIsStored ==
    pc = "addresses" =>
        /\ Len(names) >= 1
        /\ 0 <= num_syms_offset
        /\ num_syms_offset + 4 <= Len(rodata)
        /\ SubSeq(rodata, num_syms_offset + 1, num_syms_offset + 4)
              = U32Bytes(Len(names), endianness)

\* C6: names are yielded whose count of two or more is stored 8 bytes or
\* more before them.
CountFoundFurther ==
    /\ pc = "addresses"
    /\ Len(names) >= 2
    /\ num_syms_offset + 8 <= names_offset

\* C7, as stated: the encoded entries fit before markers_offset and the
\* padding after them is shorter than 8 bytes.
PaddingBelowEight ==
    pc = "addresses" =>
        /\ encoded_length <= markers_offset - names_offset
        /\ markers_offset - names_offset < 8 + encoded_length

\* C7, amended: the encoded entries fit before markers_offset and every
\* byte after them up to markers_offset is zero, however many there are.
PaddingIsZero ==
    pc = "addresses" =>
        /\ encoded_length <= markers_offset - names_offset
        /\ ZeroBetween(names_offset + encoded_length, markers_offset)

\* C7: names are yielded with 8 bytes of padding or more before the markers.
PaddingOfEight ==
    /\ pc = "addresses"
    /\ markers_offset - names_offset >= 8 + encoded_length

RECURSIVE ExpandedLength(_, _)
\* The length of the name of the n tokens whose ids start at offset p.
ExpandedLength(p, n) ==
    IF n = 0 THEN 0
    ELSE Len(token_table[ByteAt(p) + 1]) + ExpandedLength(p + 1, n - 1)

RECURSIVE ChainOf(_, _)
\* A forward parse from p gives k entries, each with a token or more, a
\* name shorter than 512 and no byte past markers_offset, and only zeroes
\* between the last and markers_offset.
ChainOf(p, k) ==
    IF k = 0 THEN p <= markers_offset /\ ZeroBetween(p, markers_offset)
    ELSE /\ 0 <= p /\ p < markers_offset
         /\ ByteAt(p) >= 1
         /\ p + 1 + ByteAt(p) <= markers_offset
         /\ ExpandedLength(p + 1, ByteAt(p)) < 512
         /\ ChainOf(p + 1 + ByteAt(p), k - 1)

\* C10: when the backward walk yields, a forward parse from names_offset
\* gives exactly as many valid entries as names and then zeroes up to
\* markers_offset; and name_counts[d] is a count c >= 1 only where a chain
\* of c valid entries starts at markers_offset - d, and 0 only at
\* markers_offset or inside the trailing zeroes.
WalkAgreesWithParse ==
    pc = "addresses" =>
        /\ ChainOf(names_offset, Len(names))
        /\ names_offset = markers_offset - (Len(name_counts) - 1)
        /\ \A d \in 0..(Len(name_counts) - 1) :
              LET c == name_counts[d + 1] IN
              /\ c >= 1 => ChainOf(markers_offset - d, c)
              /\ c = 0 => d = 0 \/ ZeroBetween(markers_offset - d, markers_offset)

\* C10: the walk yields two names or more after passing trailing zeroes and
\* an offset that starts no valid entry.
WalkPassedInvalid ==
    /\ pc = "addresses"
    /\ Len(names) >= 2
    /\ name_counts[2] = 0
    /\ \E d \in 1..Len(name_counts) : name_counts[d] = None

-----------------------------------------------------------------------------
(* Properties of the address finders, under SpecAddresses                  *)

\* C4: every address array the finders yield has as many elements as there
\* are names and is non-decreasing, and so has the result.
AddressesSorted ==
    /\ \A k \in 1..Len(candidates) :
          LET a == candidates[k].addresses IN
          /\ Len(a) = Len(names)
          /\ \A i \in 1..(Len(a) - 1) : ~Less(a[i + 1], a[i])
    /\ pc = "done" =>
          /\ Len(result) = Len(names)
          /\ \A i \in 1..(Len(result) - 1) : ~Less(result[i + 1][1], result[i][1])

\* C4: a base-relative array is yielded in both decodings, of two addresses
\* that differ.
BothDecodingsYielded ==
    /\ pc = "done"
    /\ Len(candidates) = 2
    /\ Len(result) = 2
    /\ result[1][1] # result[2][1]
    /\ candidates[1].addresses # candidates[2].addresses

\* C5: every address of the result is below 2^64, which is to have 8 digits
\* at most.
AddressesFit ==
    \A i \in 1..Len(result) : Len(result[i][1]) <= 8

\* The offset the address finder is called with.
addresses_offset ==
    addresses_offset_of(num_syms_offset, token_index_offset, Len(names), word,
                        base_relative, addresses_first)

\* C9: an address region that starts before offset 0 is rejected: the
\* finder neither yields it nor fails on it.
NegativeOffsetRejected ==
    addresses_offset < 0 => pc \notin {"done", "error"}

-----------------------------------------------------------------------------
(* Properties of find_kallsyms_in_rodata, under Spec                       *)

\* C1: find_kallsyms_in_rodata raises no error, whatever the buffer.
NoError == pc # "error"

\* C2: on an assembled buffer find_kallsyms_in_rodata returns the pairs the
\* buffer was assembled from, and find_num_syms, called with the offset of
\* its markers, yields the names from their first entry.
RoundTrip ==
    built.kind = "assembled" =>
        /\ pc \in {"done", "error"} => pc = "done" /\ result = built.expected
        /\ pc = "addresses" /\ markers_offset = built.markers_offset
              => names_offset = built.names_offset

\* The offsets find_token_indices yields: those just past the start of
\* three zeroes, with 512 bytes after them.
IndexOffsets ==
    {z + 1 : z \in {i \in 0..(Len(rodata) - TokenIndexSize - 1) :
                       rodata[i + 1] = 0 /\ rodata[i + 2] = 0 /\ rodata[i + 3] = 0}}

\* The configuration p comes before q in the order of the nested loops:
\* endianness, token index, markers end downward, marker size 4 then 8,
\* word size 8 then 4, absolute then base-relative, addresses first then
\* last.
Rank(c) ==
    <<IF c.e = "<" THEN 0 ELSE 1, c.tio, 0 - c.meo, c.size,
      0 - c.word, IF c.relative THEN 1 ELSE 0, IF c.first THEN 0 ELSE 1>>

Before(p, q) ==
    \E k \in 1..7 :
        /\ \A j \in 1..(k - 1) : Rank(p)[j] = Rank(q)[j]
        /\ Rank(p)[k] < Rank(q)[k]

\* Every layer yields for the configuration c; then the addresses of the
\* first candidate and the names.
Layers(c) ==
    LET index == try_parse_token_index(rodata, c.e, c.tio) IN
    IF index = <<>> THEN <<>>
    ELSE
    LET table == find_token_tables(rodata, index, c.tio) IN
    IF table.kind # "yield" \/ c.meo > table.offset \/ c.meo <= -4
       \/ (table.offset - c.meo) % 4 # 0
    THEN <<>>
    ELSE
    LET marks == find_markers(rodata, c.e, c.size, c.meo - c.size) IN
    IF marks.kind # "yield" THEN <<>>
    ELSE
    LET named == find_num_syms(rodata, c.e, table.tokens, marks.offset) IN
    IF named.kind # "yield" THEN <<>>
    ELSE
    LET found == find_addresses(rodata, c.e, named.num_syms_offset, c.tio,
                                Len(named.names), c.word, c.relative, c.first)
    IN  IF found.kind # "yield" \/ found.candidates = <<>> THEN <<>>
        ELSE zip(found.candidates[1].addresses, named.names)

\* range(token_table_offset, -4, -4)
Sweep(offset) == {m \in -3..offset : (offset - m) % 4 = 0}

\* The configurations of one endianness and token index offset: none where
\* the token index or the token table is not found.
ConfigurationsAt(e, tio) ==
    LET index == try_parse_token_index(rodata, e, tio) IN
    IF index = <<>> THEN {}
    ELSE LET table == find_token_tables(rodata, index, tio) IN
         IF table.kind # "yield" THEN {}
         ELSE [e : {e}, tio : {tio}, meo : Sweep(table.offset), size : {4, 8},
               word : {8, 4}, relative : BOOLEAN, first : BOOLEAN]

Configurations ==
    UNION {ConfigurationsAt(e, tio) : e \in {"<", ">"}, tio \in IndexOffsets}

Current ==
    [e |-> endianness, tio |-> token_index_offset, meo |-> markers_end_offset,
     size |-> marker_size, word |-> word, relative |-> base_relative,
     first |-> addresses_first]

\* The non-percpu decoding of the base-relative array at addresses_offset.
NonPercpu ==
    LET n == Len(names)
        base_offset == align(addresses_offset + 4 * n, word)
        base == unpack_unsigned(endianness,
                                Slice(rodata, base_offset, base_offset + word))
    IN  [i \in 1..n |-> Add(base, Strip(raw_address(rodata, endianness,
                                                    addresses_offset, i)))]

\* C3: the result is the reconstruction of the first configuration, in the
\* order of the nested loops, for which every layer yields, and is empty
\* when there is none; when the non-percpu decoding of a base-relative
\* array is non-decreasing, the addresses returned are the non-percpu ones.
FirstSuccessWins ==
    pc = "done" =>
        IF result = <<>>
        THEN \A c \in Configurations : Layers(c) = <<>>
        ELSE /\ result = Layers(Current)
             /\ \A c \in Configurations : Before(c, Current) => Layers(c) = <<>>
             /\ base_relative /\ (\A i \in 1..(Len(names) - 1) :
                                     ~Less(NonPercpu[i + 1], NonPercpu[i]))
                   => \A i \in 1..Len(result) : result[i][1] = NonPercpu[i]

\* C3: the result is that of a base-relative array whose two decodings are
\* both non-decreasing and differ, after earlier configurations yielded
\* nothing.
NonPercpuWon ==
    /\ pc = "done"
    /\ base_relative
    /\ Len(candidates) = 2
    /\ candidates[1].addresses # candidates[2].addresses
    /\ Len(result) >= 3

====
